---- MODULE Spec2Model ----
(***************************************************************************)
(* Collector activity dashboard (src/dashboard_local.py).                  *)
(*                                                                         *)
(* Text is modelled as a sequence of one-character strings, a spreadsheet  *)
(* cell as a tagged record (NaN, text or integer), a DataFrame as a record *)
(* of its column set and its rows (each row a function from column name to *)
(* cell, carrying the DataFrame index in "idx").                           *)
(*                                                                         *)
(* Specifications:                                                         *)
(*   Spec     - a browser session: links, cached load, sidebar, roster     *)
(*   SpecURL  - get_gdrive_download_url on bounded sharing links           *)
(*   SpecLoad - load_data_from_gdrive on bounded rosters and visit logs    *)
(*   SpecAgg  - the breakdowns of tabs 2 and 3 on bounded loaded data      *)
(*   SpecColor - get_aging_colors on bounded labels                        *)
(*   SpecCal  - the month grid of tab 1 for the dates of bounded years     *)
(***************************************************************************)
EXTENDS Integers, Sequences, FiniteSets, TLC

VARIABLES
    pc,             \* position of the pure-function specifications
    share_link,     \* argument of get_gdrive_download_url
    download_url,   \* its return value
    remote,         \* the hosted spreadsheets: download address -> sheet or fetch failure
    visit_log_url,  \* sidebar text input: sharing link of the visit log
    group_list_url, \* sidebar text input: sharing link of the roster
    returned,       \* what load_data_from_gdrive returned to its caller
    cache,          \* st.cache_data store of load_data_from_gdrive: arguments -> return value
    fetched,        \* the download addresses the last script run read, None if it read none
    visit_logs,     \* the script's activity frame once the run is over
    groups_info,    \* the script's roster frame once the run is over
    selected_group, \* sidebar team selectbox
    selected_collector_name,    \* sidebar collector selectbox
    analysis_dates,             \* tab 2 date inputs <<analysis_start_date, analysis_end_date>>
    comp_dates,                 \* tab 3 date inputs <<comp_start_date, comp_end_date>>
    primary_collector_formatted,        \* tab 3 selectbox
    comparison_collectors_formatted,    \* tab 3 multiselect
    aging_counts,               \* tab 2 breakdown, or what the tab showed instead
    aging_counts_primary,       \* tab 3 breakdown of the primary collector
    aging_counts_comp,          \* tab 3 average breakdown of the comparison group
    aging_status,               \* argument of get_aging_colors
    colors,                     \* its return value
    current_date,               \* st.session_state.current_date
    current_day,                \* loop variable of the month grid
    cells                       \* the cells the month grid has emitted so far, in order

tabVars == <<analysis_dates, comp_dates, primary_collector_formatted,
             comparison_collectors_formatted, aging_counts, aging_counts_primary,
             aging_counts_comp>>

viewVars == <<aging_status, colors, current_date, current_day, cells>>

vars == <<pc, share_link, download_url, remote, visit_log_url, group_list_url, returned,
          cache, fetched, visit_logs, groups_info, selected_group, selected_collector_name,
          tabVars, viewVars>>

sessionVars == <<cache, fetched, visit_logs, groups_info, selected_group, selected_collector_name,
                 tabVars, viewVars>>

(***************************************************************************)
(* Bounds of the model                                                     *)
(***************************************************************************)
MaxChunks == 4      \* a sharing link is made of at most this many chunks
MaxRows == 1        \* rows of a visit log drawn freely from RowChoices
MaxViewRows == 2    \* rows of a visit log drawn freely from AggRowChoices
MaxLabelLen == 4    \* characters of an aging label drawn freely from LabelChars
MaxYears == 4       \* years of current dates, from 2021 on

(***************************************************************************)
(* Python values                                                           *)
(***************************************************************************)
None == [t |-> "None"]
Str(s) == [t |-> "str", v |-> s]
Num(n) == [t |-> "int", v |-> n]
NaN == [t |-> "nan"]

SetMin(S) == CHOOSE x \in S : \A y \in S : x <= y

\* s.find(pat) + 1: the position of the first occurrence of pat in s, 0 if none
Find(s, pat) ==
    LET I == { i \in 1..(Len(s) - Len(pat) + 1) : SubSeq(s, i, i + Len(pat) - 1) = pat }
    IN  IF I = {} THEN 0 ELSE SetMin(I)

\* pat in s
Contains(s, pat) == Find(s, pat) # 0

\* pat occurs somewhere in s
HasSub(s, pat) == \E i \in 1..Len(s) : \E j \in i..Len(s) : SubSeq(s, i, j) = pat

\* s.split(sep), sep non-empty: left to right, non-overlapping
RECURSIVE Split(_, _)
Split(s, sep) ==
    LET i == Find(s, sep)
    IN  IF i = 0 THEN << s >>
        ELSE << SubSeq(s, 1, i - 1) >> \o Split(SubSeq(s, i + Len(sep), Len(s)), sep)

(***************************************************************************)
(* get_gdrive_download_url (lines 16-27)                                   *)
(***************************************************************************)
SheetMarker == <<"s","p","r","e","a","d","s","h","e","e","t","s","/","d","/">>
FileMarker == <<"f","i","l","e","/","d","/">>
DMarker == <<"/","d","/">>
Slash == <<"/">>
SheetPrefix == <<"h","t","t","p","s",":","/","/","d","o","c","s",".","g","o","o","g","l","e",".","c","o","m","/","s","p","r","e","a","d","s","h","e","e","t","s","/","d","/">>
SheetSuffix == <<"/","e","x","p","o","r","t","?","f","o","r","m","a","t","=","x","l","s","x">>
FilePrefix == <<"h","t","t","p","s",":","/","/","d","r","i","v","e",".","g","o","o","g","l","e",".","c","o","m","/","u","c","?","e","x","p","o","r","t","=","d","o","w","n","l","o","a","d","&","i","d","=">>

\* share_link.split('/d/')[1].split('/')[0]
file_id(link) == Split(Split(link, DMarker)[2], Slash)[1]

\* a plausible slip: an unrecognized link is guessed to be a generic file link
guess_download_url(link) ==
    IF Contains(link, SheetMarker)
    THEN Str(SheetPrefix \o file_id(link) \o SheetSuffix)
    ELSE IF Contains(link, DMarker)
         THEN Str(FilePrefix \o file_id(link))
         ELSE Str(FilePrefix \o link)

get_gdrive_download_url(link) ==
    IF Contains(link, SheetMarker)
    THEN Str(SheetPrefix \o file_id(link) \o SheetSuffix)
    ELSE IF Contains(link, FileMarker)
         THEN Str(FilePrefix \o file_id(link))
         ELSE None

(***************************************************************************)
(* Text and cell helpers (str methods, astype(str))                        *)
(***************************************************************************)
SetMax(S) == CHOOSE x \in S : \A y \in S : x >= y

LowerChars == <<"a","b","c","d","e","f","g","h","i","j","k","l","m","n","o","p","q","r","s","t","u","v","w","x","y","z">>
UpperChars == <<"A","B","C","D","E","F","G","H","I","J","K","L","M","N","O","P","Q","R","S","T","U","V","W","X","Y","Z">>
DigitChars == <<"0","1","2","3","4","5","6","7","8","9">>

IsDigit(c) == \E i \in 1..Len(DigitChars) : DigitChars[i] = c
DigitVal(c) == (CHOOSE i \in 1..Len(DigitChars) : DigitChars[i] = c) - 1

\* str.upper()
upper(s) ==
    [ i \in 1..Len(s) |->
        IF \E k \in 1..Len(LowerChars) : LowerChars[k] = s[i]
        THEN UpperChars[CHOOSE k \in 1..Len(LowerChars) : LowerChars[k] = s[i]]
        ELSE s[i] ]

\* str.lower()
lower(s) ==
    [ i \in 1..Len(s) |->
        IF \E k \in 1..Len(UpperChars) : UpperChars[k] = s[i]
        THEN LowerChars[CHOOSE k \in 1..Len(UpperChars) : UpperChars[k] = s[i]]
        ELSE s[i] ]

\* str.strip()
strip(s) ==
    LET I == { i \in 1..Len(s) : s[i] # " " }
    IN  IF I = {} THEN << >> ELSE SubSeq(s, SetMin(I), SetMax(I))

\* int(text) for a non-empty run of digits
RECURSIVE ToInt(_)
ToInt(ds) ==
    IF ds = << >> THEN 0
    ELSE 10 * ToInt(SubSeq(ds, 1, Len(ds) - 1)) + DigitVal(ds[Len(ds)])

\* str(n) for n >= 0
RECURSIVE ToDigits(_)
ToDigits(n) ==
    IF n < 10 THEN << DigitChars[n + 1] >>
    ELSE ToDigits(n \div 10) \o << DigitChars[(n % 10) + 1] >>

IsNull(cell) == cell.t = "nan"

\* Series.astype(str) on one cell
astype_str(cell) ==
    IF cell.t = "nan" THEN <<"n","a","n">>
    ELSE IF cell.t = "int" THEN ToDigits(cell.v)
    ELSE cell.v

(***************************************************************************)
(* Column names                                                            *)
(***************************************************************************)
cCollector == <<"C","o","l","l","e","c","t","o","r">>
cCreateTime == <<"C","r","e","a","t","e"," ","T","i","m","e">>
cNegPosUnit == <<"N","e","g"," ","P","o","s"," ","U","n","i","t">>
cAging == <<"A","g","i","n","g">>
cContactSummary == <<"C","o","n","t","a","c","t"," ","S","u","m","m","a","r","y">>
cCustomerName == <<"C","u","s","t","o","m","e","r"," ","N","a","m","e">>
cID == <<"I","D">>
cAgentName == <<"A","g","e","n","t"," ","N","a","m","e">>
cGroup == <<"G","r","o","u","p">>
cCollectorID == <<"C","o","l","l","e","c","t","o","r"," ","I","D">>
cDate == <<"D","a","t","e">>
cCollectorName == <<"C","o","l","l","e","c","t","o","r"," ","N","a","m","e">>
cFormattedName == <<"F","o","r","m","a","t","t","e","d"," ","N","a","m","e">>
cAgingSort == <<"A","g","i","n","g","S","o","r","t">>

CancelRepossession == <<"C","a","n","c","e","l","R","e","p","o","s","s","e","s","s","i","o","n">>

(***************************************************************************)
(* DataFrame helpers.  A frame is [columns |-> set of names, rows |-> a    *)
(* sequence of [idx |-> index label, cells |-> [columns -> cell]]].        *)
(***************************************************************************)
\* df[c] = F(row) for every row
SetCol(df, c, F(_)) ==
    [ columns |-> df.columns \cup {c},
      rows |-> [ i \in 1..Len(df.rows) |->
                   [ idx |-> df.rows[i].idx,
                     cells |-> [ k \in df.columns \cup {c} |->
                                   IF k = c THEN F(df.rows[i]) ELSE df.rows[i].cells[k] ] ] ] ]

\* df[mask]: boolean indexing returns a new frame with the rows that pass
Where(df, Keep(_)) == [ columns |-> df.columns, rows |-> SelectSeq(df.rows, Keep) ]

\* df.columns = df.columns.str.strip()
strip_columns(df) ==
    LET cols == { strip(k) : k \in df.columns }
        raw == [ c \in cols |-> CHOOSE k \in df.columns : strip(k) = c ]
    IN  [ columns |-> cols,
          rows |-> [ i \in 1..Len(df.rows) |->
                       [ idx |-> df.rows[i].idx,
                         cells |-> [ c \in cols |-> df.rows[i].cells[raw[c]] ] ] ] ]

\* df.rename(columns={old: new})
rename_column(df, old, new) ==
    LET cols == (df.columns \ {old}) \cup {new}
    IN  [ columns |-> cols,
          rows |-> [ i \in 1..Len(df.rows) |->
                       [ idx |-> df.rows[i].idx,
                         cells |-> [ c \in cols |->
                                       df.rows[i].cells[IF c = new THEN old ELSE c] ] ] ] ]

\* df.set_index(key)[val].to_dict(): the last row with a key wins
to_dict(df, key, val) ==
    LET keys == { df.rows[i].cells[key] : i \in 1..Len(df.rows) }
    IN  [ k \in keys |->
            df.rows[SetMax({ i \in 1..Len(df.rows) : df.rows[i].cells[key] = k })].cells[val] ]

\* Series.map(dict) on one cell: a key the dict lacks maps to NaN
map_dict(d, k) == IF k \in DOMAIN d THEN d[k] ELSE NaN

(***************************************************************************)
(* pd.to_datetime(text, format='%d/%m/%Y %H:%M:%S', errors='coerce')       *)
(***************************************************************************)
IsLeap(y) == (y % 4 = 0 /\ y % 100 # 0) \/ y % 400 = 0

DaysIn(m, y) ==
    IF m = 2 THEN (IF IsLeap(y) THEN 29 ELSE 28)
    ELSE IF m \in {4, 6, 9, 11} THEN 30 ELSE 31

DigitRun(p, lo, hi) ==
    /\ Len(p) >= lo
    /\ Len(p) <= hi
    /\ \A i \in 1..Len(p) : IsDigit(p[i])

Timestamp(y, m, d, hh, mm, ss) ==
    [t |-> "ts", year |-> y, month |-> m, day |-> d, hour |-> hh, minute |-> mm, second |-> ss]

\* the six numbers read, checked against the calendar and the clock
checked_timestamp(d, m, y, hh, mm, ss) ==
    IF /\ m >= 1 /\ m <= 12 /\ d >= 1 /\ d <= DaysIn(m, y) /\ y >= 1
       /\ hh <= 23 /\ mm <= 59 /\ ss <= 59
    THEN Timestamp(y, m, d, hh, mm, ss)
    ELSE NaN

\* a plausible slip: the month-first format '%m/%d/%Y %H:%M:%S'
strptime_mdy(dmy, hms) ==
    IF Len(dmy) # 3 \/ Len(hms) # 3 THEN NaN
    ELSE IF ~( /\ DigitRun(dmy[1], 1, 2) /\ DigitRun(dmy[2], 1, 2) /\ DigitRun(dmy[3], 4, 4)
               /\ DigitRun(hms[1], 1, 2) /\ DigitRun(hms[2], 1, 2) /\ DigitRun(hms[3], 1, 2) )
         THEN NaN
    ELSE checked_timestamp(ToInt(dmy[2]), ToInt(dmy[1]), ToInt(dmy[3]),
                           ToInt(hms[1]), ToInt(hms[2]), ToInt(hms[3]))

\* the format '%d/%m/%Y %H:%M:%S' on the date fields and the time fields:
\* three of each, day and month of 1-2 digits, year of 4, then hour, minute, second
strptime_dmy(dmy, hms) ==
    IF Len(dmy) # 3 \/ Len(hms) # 3 THEN NaN
    ELSE IF ~( /\ DigitRun(dmy[1], 1, 2) /\ DigitRun(dmy[2], 1, 2) /\ DigitRun(dmy[3], 4, 4)
               /\ DigitRun(hms[1], 1, 2) /\ DigitRun(hms[2], 1, 2) /\ DigitRun(hms[3], 1, 2) )
         THEN NaN
    ELSE checked_timestamp(ToInt(dmy[1]), ToInt(dmy[2]), ToInt(dmy[3]),
                           ToInt(hms[1]), ToInt(hms[2]), ToInt(hms[3]))

\* the text must be day/month/year, one space, hour:minute:second; anything else is NaT
strptime(s) ==
    IF Len(Split(s, <<" ">>)) # 2 THEN NaN
    ELSE strptime_dmy(Split(Split(s, <<" ">>)[1], <<"/">>), Split(Split(s, <<" ">>)[2], <<":">>))

to_datetime(cell) == IF cell.t = "str" THEN strptime(cell.v) ELSE NaN

\* Timestamp.date()
dt_date(ts) == [t |-> "date", year |-> ts.year, month |-> ts.month, day |-> ts.day]

(***************************************************************************)
(* load_data_from_gdrive (lines 29-89), step by step                       *)
(***************************************************************************)
FetchError == [t |-> "error"]

required_cols == { cCollector, cCreateTime, cNegPosUnit, cAging, cContactSummary, cCustomerName }

\* a plausible slip: the legacy 'Collector' header is not aliased
normalize_roster_no_alias(raw) ==
    LET df1 == strip_columns(raw)
        id_of(r) == Str(strip(astype_str(r.cells[cID])))
    IN  SetCol(df1, cID, id_of)

\* lines 45-49: header trim, ID as trimmed text, legacy 'Collector' alias
normalize_roster(raw) ==
    LET df1 == strip_columns(raw)
        id_of(r) == Str(strip(astype_str(r.cells[cID])))
        df2 == SetCol(df1, cID, id_of)
    IN  IF cCollector \in df2.columns /\ cAgentName \notin df2.columns
        THEN rename_column(df2, cCollector, cAgentName)
        ELSE df2

\* line 61: visit_logs_df[required_cols].copy()
project_required(df) ==
    [ columns |-> required_cols,
      rows |-> [ i \in 1..Len(df.rows) |->
                   [ idx |-> df.rows[i].idx,
                     cells |-> [ c \in required_cols |-> df.rows[i].cells[c] ] ] ] ]

\* line 63: dropna(subset=['Create Time', 'Collector', 'Aging'])
drop_missing(df) ==
    LET keep(r) == ~IsNull(r.cells[cCreateTime]) /\ ~IsNull(r.cells[cCollector])
                   /\ ~IsNull(r.cells[cAging])
    IN  Where(df, keep)

\* lines 64-66: 'Collector' as trimmed text, 'Collector ID' the trimmed part before the first '-'
derive_collector_id(df) ==
    LET coll(r) == Str(strip(astype_str(r.cells[cCollector])))
        df1 == SetCol(df, cCollector, coll)
        cid(r) == Str(strip(Split(r.cells[cCollector].v, <<"-">>)[1]))
    IN  SetCol(df1, cCollectorID, cid)

\* a plausible slip: the anti-join against the roster is left out
keep_all_collectors(df, groups_df) == df

\* lines 68-69: keep the rows whose 'Collector ID' is a roster ID
filter_valid_collectors(df, groups_df) ==
    LET valid_collector_ids == { groups_df.rows[i].cells[cID] : i \in 1..Len(groups_df.rows) }
        keep(r) == r.cells[cCollectorID] \in valid_collector_ids
    IN  Where(df, keep)

\* a plausible slip: the sentinel is compared without the trim
drop_cancelled_untrimmed(df) ==
    LET unit(r) == Str(astype_str(r.cells[cNegPosUnit]))
        df1 == SetCol(df, cNegPosUnit, unit)
        keep(r) == r.cells[cNegPosUnit].v # CancelRepossession
    IN  IF cNegPosUnit \in df.columns THEN Where(df1, keep) ELSE df

\* lines 71-73: 'Neg Pos Unit' as text; drop the rows whose trimmed value is the sentinel
drop_cancelled(df) ==
    LET unit(r) == Str(astype_str(r.cells[cNegPosUnit]))
        df1 == SetCol(df, cNegPosUnit, unit)
        keep(r) == strip(r.cells[cNegPosUnit].v) # CancelRepossession
    IN  IF cNegPosUnit \in df.columns THEN Where(df1, keep) ELSE df

\* lines 75-77: parse 'Create Time', drop the rows that fail, derive 'Date'
parse_create_time(df) ==
    LET ts(r) == to_datetime(r.cells[cCreateTime])
        df1 == SetCol(df, cCreateTime, ts)
        keep(r) == ~IsNull(r.cells[cCreateTime])
        df2 == Where(df1, keep)
        date(r) == dt_date(r.cells[cCreateTime])
    IN  SetCol(df2, cDate, date)

\* a plausible slip: 'Aging' is trimmed but not uppercased
normalize_aging_no_upper(df) ==
    LET aging(r) == Str(strip(astype_str(r.cells[cAging])))
    IN  SetCol(df, cAging, aging)

\* line 83: 'Aging' as trimmed uppercase text
normalize_aging(df) ==
    LET aging(r) == Str(upper(strip(astype_str(r.cells[cAging]))))
    IN  SetCol(df, cAging, aging)

NoData == [raised |-> FALSE, visit_logs |-> None, groups_info |-> None]
Raised == [raised |-> TRUE, visit_logs |-> None, groups_info |-> None]

\* lines 53-85, entered once the roster has been read and normalized
load_visits(visit_download_url, groups_df, collectors_info, files) ==
    IF files[visit_download_url] = FetchError THEN Raised                     \* line 53
    ELSE
    LET visit_raw == strip_columns(files[visit_download_url])                  \* line 54
    IN
    IF ~(required_cols \subseteq visit_raw.columns) THEN NoData                \* lines 57-59
    ELSE
    LET df1 == project_required(visit_raw)
        df2 == drop_missing(df1)
        df3 == derive_collector_id(df2)
        df4 == filter_valid_collectors(df3, groups_df)
        df5 == drop_cancelled(df4)
        df6 == parse_create_time(df5)
        name(r) == map_dict(collectors_info, r.cells[cCollectorID])
        df7 == SetCol(df6, cCollectorName, name)                               \* line 79
    IN
    IF cGroup \notin groups_df.columns THEN Raised                             \* line 80
    ELSE
    LET group_map == to_dict(groups_df, cID, cGroup)
        group(r) == map_dict(group_map, r.cells[cCollectorID])
        df8 == SetCol(df7, cGroup, group)                                      \* line 81
        df9 == normalize_aging(df8)
    IN  [raised |-> FALSE, visit_logs |-> df9, groups_info |-> groups_df]      \* line 85

\* lines 43-85: the body of the try block; Raised stands for any exception
load_body(visit_download_url, group_download_url, files) ==
    IF files[group_download_url] = FetchError THEN Raised                      \* line 44
    ELSE
    IF cID \notin { strip(k) : k \in files[group_download_url].columns }
    THEN Raised                                                                \* line 46
    ELSE
    LET groups_df == normalize_roster(files[group_download_url])               \* lines 45-49
    IN
    IF cAgentName \notin groups_df.columns THEN Raised                         \* line 51
    ELSE load_visits(visit_download_url, groups_df,
                     to_dict(groups_df, cID, cAgentName), files)

\* a plausible slip: the fetch and parse steps run outside any try/except
load_without_try(visit_url, group_url, files) ==
    LET visit_download_url == get_gdrive_download_url(visit_url)
        group_download_url == get_gdrive_download_url(group_url)
    IN  IF visit_download_url = None \/ group_download_url = None
        THEN NoData
        ELSE load_body(visit_download_url.v, group_download_url.v, files)

\* the function: unresolved links and every exception end in (None, None)
load_data_from_gdrive(visit_url, group_url, files) ==
    LET visit_download_url == get_gdrive_download_url(visit_url)
        group_download_url == get_gdrive_download_url(group_url)
    IN  IF visit_download_url = None \/ group_download_url = None
        THEN NoData                                                            \* lines 40-41
        ELSE LET out == load_body(visit_download_url.v, group_download_url.v, files)
             IN  IF out.raised THEN NoData ELSE out                            \* lines 87-89

(***************************************************************************)
(* get_aging_colors (lines 91-110)                                         *)
(***************************************************************************)
default_colors == [border |-> "#6B7280", bg |-> "rgba(107, 114, 128, 0.1)"]    \* line 93
m6_colors == [border |-> "#86198F", bg |-> "rgba(134, 25, 143, 0.15)"]         \* line 108

s_M2 == <<"M","2">>
s_M3 == <<"M","3">>
s_M4 == <<"M","4">>
s_M5 == <<"M","5">>
s_M6 == <<"M","6">>

\* lines 100-105
color_map ==
    (s_M2 :> [border |-> "#FBBF24", bg |-> "rgba(251, 191, 36, 0.15)"])
    @@ (s_M3 :> [border |-> "#F97316", bg |-> "rgba(249, 115, 22, 0.15)"])
    @@ (s_M4 :> [border |-> "#EF4444", bg |-> "rgba(239, 68, 68, 0.15)"])
    @@ (s_M5 :> [border |-> "#BE123C", bg |-> "rgba(190, 18, 60, 0.15)"])

\* dict.get(key, default)
dict_get(d, k, default) == IF k \in DOMAIN d THEN d[k] ELSE default

\* a plausible slip: 'M6' looked up like the other buckets, by equality
get_aging_colors_exact(status) ==
    IF status.t # "str" THEN default_colors
    ELSE dict_get((s_M6 :> m6_colors) @@ color_map, upper(strip(status.v)), default_colors)

\* the function: a value that is not a string gets the default; the text is
\* trimmed and uppercased; 'M6' anywhere in it wins; else the map, else the default
get_aging_colors(status) ==
    IF status.t # "str" THEN default_colors                                    \* lines 94-95
    ELSE IF Contains(upper(strip(status.v)), s_M6) THEN m6_colors              \* lines 97, 107-108
    ELSE dict_get(color_map, upper(strip(status.v)), default_colors)           \* line 110

(***************************************************************************)
(* The script: sidebar (lines 158-197) and main panel (lines 200-428)      *)
(***************************************************************************)
AllTeams == <<"*","t","e","a","m","s">>             \* the entry '所有團隊' of line 185
AllCollectors == <<"*","c","o","l","l","e","c","t","o","r","s">>   \* '所有催收員' of line 189

\* the tabs of a specification that follows no rendering
NoTabs ==
    /\ analysis_dates = None
    /\ comp_dates = None
    /\ primary_collector_formatted = None
    /\ comparison_collectors_formatted = {}
    /\ aging_counts = None
    /\ aging_counts_primary = None
    /\ aging_counts_comp = None

\* the card colours and the month grid of a specification that draws neither
NoView ==
    /\ aging_status = None
    /\ colors = None
    /\ current_date = None
    /\ current_day = None
    /\ cells = << >>

\* the session of a specification that runs no script
NoSession ==
    /\ cache = << >>
    /\ fetched = None
    /\ visit_logs = None
    /\ groups_info = None
    /\ selected_group = AllTeams
    /\ selected_collector_name = AllCollectors
    /\ NoTabs
    /\ NoView

\* a plausible slip: the value is stored, but a stored entry never counts as a
\* hit (an entry that expires at once), so every call runs the body
refetching_load(store, visit_url, group_url, files) ==
    [ cache |-> (<<visit_url, group_url>> :> load_data_from_gdrive(visit_url, group_url, files))
                    @@ store,
      ran |-> TRUE ]

\* @st.cache_data (line 29): the store is keyed by the call's arguments; a miss
\* runs the body and stores what it returns, a hit does not run the body; the
\* caller gets a copy of the stored value either way
cached_load(store, visit_url, group_url, files) ==
    IF <<visit_url, group_url>> \in DOMAIN store
    THEN [ cache |-> store, ran |-> FALSE ]
    ELSE [ cache |-> (<<visit_url, group_url>> :> load_data_from_gdrive(visit_url, group_url, files))
                         @@ store,
           ran |-> TRUE ]

\* the addresses the body reads (lines 44 and 53) when both links resolve
reads(visit_url, group_url) ==
    LET v == get_gdrive_download_url(visit_url)
        g == get_gdrive_download_url(group_url)
    IN  IF v = None \/ g = None THEN None
        ELSE [t |-> "read", visit |-> v.v, group |-> g.v]

\* lines 185 and 189-193: the options of the two sidebar selectboxes
group_options(info) ==
    {AllTeams} \cup { info.rows[i].cells[cGroup].v : i \in 1..Len(info.rows) }

collector_options(logs, info, group) ==
    IF group = AllTeams
    THEN {AllCollectors} \cup { info.rows[i].cells[cAgentName].v : i \in 1..Len(info.rows) }
    ELSE LET collector_ids_in_group ==
                 { info.rows[i].cells[cID] : i \in { k \in 1..Len(info.rows) :
                                                     info.rows[k].cells[cGroup].v = group } }
             named == { i \in 1..Len(logs.rows) :
                          /\ logs.rows[i].cells[cCollectorID] \in collector_ids_in_group
                          /\ ~IsNull(logs.rows[i].cells[cCollectorName]) }
         IN  {AllCollectors} \cup { logs.rows[i].cells[cCollectorName].v : i \in named }

\* lines 201-205: a copy of the activity frame, narrowed by team and collector
base_filtered_data(logs, group, collector) ==
    LET in_group(r) == group = AllTeams \/ r.cells[cGroup] = Str(group)
        of_collector(r) == collector = AllCollectors \/ r.cells[cCollectorName] = Str(collector)
        keep(r) == in_group(r) /\ of_collector(r)
    IN  Where(logs, keep)

\* line 346: groups_info['Formatted Name'] = "[" + Group + "] " + Agent Name,
\* assigned into the roster frame the load returned
add_formatted_name(info) ==
    LET formatted(r) == Str(<<"[">> \o r.cells[cGroup].v \o <<"]", " ">> \o r.cells[cAgentName].v)
    IN  SetCol(info, cFormattedName, formatted)

(***************************************************************************)
(* Tabs 2 and 3: breakdowns by aging bucket (lines 310-428)                *)
(***************************************************************************)
Message(kind) == [t |-> kind]           \* st.error / st.info shown instead of charts
Table(rows) == [t |-> "table", rows |-> rows]

DateLE(a, b) ==
    \/ a.year < b.year
    \/ a.year = b.year /\ a.month < b.month
    \/ a.year = b.year /\ a.month = b.month /\ a.day <= b.day

DatesOf(df) == { df.rows[i].cells[cDate] : i \in 1..Len(df.rows) }

\* df[(df['Date'] >= start) & (df['Date'] <= end)]
between_dates(df, start, end) ==
    LET keep(r) == DateLE(start, r.cells[cDate]) /\ DateLE(r.cells[cDate], end)
    IN  Where(df, keep)

\* str.extract('(\d+)').fillna(0).astype(int): the first run of digits, 0 if none
aging_sort(label) ==
    LET I == { i \in 1..Len(label) : IsDigit(label[i]) }
    IN  IF I = {} THEN 0
        ELSE LET a == SetMin(I)
                 b == SetMax({ j \in a..Len(label) : \A k \in a..j : IsDigit(label[k]) })
             IN  ToInt(SubSeq(label, a, b))

\* Series.value_counts(): each distinct value with the number of its rows
value_counts(df) ==
    LET labels == { df.rows[i].cells[cAging].v : i \in 1..Len(df.rows) }
    IN  [ l \in labels |-> Cardinality({ i \in 1..Len(df.rows) : df.rows[i].cells[cAging].v = l }) ]

RECURSIVE GCD(_, _)
GCD(a, b) == IF b = 0 THEN a ELSE GCD(b, a % b)

\* count / n as an exact fraction in lowest terms
divide(count, n) == [ num |-> count \div GCD(count, n), den |-> n \div GCD(count, n) ]

\* a plausible slip: the primary collector is counted into the group
group_size_with_primary(comparison_collectors) == Cardinality(DOMAIN comparison_collectors) + 1

\* len(comparison_collectors), lines 406 and 414
group_size(comparison_collectors) == Cardinality(DOMAIN comparison_collectors)

\* lines 324-326 and 386-388: the frame of buckets, counts and sort keys
count_by_aging(df) ==
    LET vc == value_counts(df)
    IN  { [ Aging |-> l, Count |-> vc[l], AgingSort |-> aging_sort(l) ] : l \in DOMAIN vc }

\* lines 412-416: the same with every count divided by the group size
average_by_aging(df, n) ==
    LET vc == value_counts(df)
    IN  { [ Aging |-> l, Count |-> divide(vc[l], n), AgingSort |-> aging_sort(l) ] : l \in DOMAIN vc }

Orders(entries) ==
    { f \in [ 1..Cardinality(entries) -> entries ] :
          \A i, j \in 1..Cardinality(entries) : i # j => f[i] # f[j] }

\* a plausible slip: the descending sort of the week view (line 265) reused
sort_values_descending(entries) ==
    { f \in Orders(entries) :
          \A i, j \in 1..Cardinality(entries) : i < j => f[i].AgingSort >= f[j].AgingSort }

\* sort_values('AgingSort'): ascending; the sort is not stable, so equal keys
\* may come out in any order
sort_values(entries) ==
    { f \in Orders(entries) :
          \A i, j \in 1..Cardinality(entries) : i < j => f[i].AgingSort <= f[j].AgingSort }

\* tab 2, lines 317-327: what the tab can show for the chosen dates
personal_breakdowns(base, start, end) ==
    IF ~DateLE(start, end) THEN { Message("error") }                              \* line 318
    ELSE LET analysis_data == between_dates(base, start, end)
         IN  IF analysis_data.rows = << >> THEN { Message("no records") }               \* line 321
             ELSE { Table(f) : f \in sort_values(count_by_aging(analysis_data)) }

\* lines 345-352: the options of the two tab 3 selectors and their name_map
name_map(info, group) ==
    IF group = AllTeams
    THEN to_dict(add_formatted_name(info), cFormattedName, cAgentName)
    ELSE LET members == { i \in 1..Len(info.rows) : info.rows[i].cells[cGroup].v = group }
         IN  [ n \in { info.rows[i].cells[cAgentName] : i \in members } |-> n ]

\* tab 3, lines 381-389: the primary collector's breakdown
primary_breakdowns(comp_data, primary_collector) ==
    LET is_primary(r) == r.cells[cCollectorName] = primary_collector
        primary_data == Where(comp_data, is_primary)
    IN  IF primary_collector = None \/ primary_collector.v = << >>
        THEN { Message("no primary") }                                        \* line 381
        ELSE IF primary_data.rows = << >> THEN { Message("no records") }       \* line 384
        ELSE { Table(f) : f \in sort_values(count_by_aging(primary_data)) }

\* tab 3, lines 403-417: the comparison group's average breakdown
comparison_breakdowns(comp_data, comparison_collectors) ==
    IF DOMAIN comparison_collectors = {} THEN { Message("empty group") }       \* lines 403-404
    ELSE LET names == { comparison_collectors[c] : c \in DOMAIN comparison_collectors }
             in_group(r) == r.cells[cCollectorName] \in names
             comparison_data == Where(comp_data, in_group)
         IN  IF comparison_data.rows = << >> THEN { Message("no records") }             \* line 409
             ELSE { Table(f) : f \in sort_values(average_by_aging(comparison_data,
                                                    group_size(comparison_collectors))) }

\* The three tabs on loaded data with the given widget values.  The date
\* inputs of lines 314-316 take the minimum and maximum date of
\* base_filtered_data; on an empty frame that is NaN, st.date_input rejects it
\* and the run stops there, before tab 3.
Tabs(logs, info, group, collector, a_dates, c_dates, primary, comparison) ==
    LET base == base_filtered_data(logs, group, collector)
        names == name_map(info, group)
        comp_data == between_dates(logs, c_dates[1], c_dates[2])
    IN  IF base.rows = << >>
        THEN /\ analysis_dates' = None
             /\ comp_dates' = None
             /\ primary_collector_formatted' = None
             /\ comparison_collectors_formatted' = {}
             /\ aging_counts' = None
             /\ aging_counts_primary' = None
             /\ aging_counts_comp' = None
             /\ groups_info' = info
        ELSE /\ analysis_dates' = a_dates
             /\ comp_dates' = c_dates
             /\ primary_collector_formatted' = primary
             /\ comparison_collectors_formatted' = comparison
             /\ groups_info' = IF group = AllTeams THEN add_formatted_name(info) ELSE info
             /\ aging_counts' \in personal_breakdowns(base, a_dates[1], a_dates[2])
             /\ IF ~DateLE(c_dates[1], c_dates[2])
                THEN /\ aging_counts_primary' = Message("error")               \* line 372
                     /\ aging_counts_comp' = Message("error")
                ELSE /\ aging_counts_primary' \in primary_breakdowns(comp_data, names[primary])
                     /\ aging_counts_comp' \in
                            comparison_breakdowns(comp_data, [ c \in comparison |-> names[c] ])

(***************************************************************************)
(* Tab 1, month view: the calendar grid (lines 270-307)                    *)
(***************************************************************************)
Date(y, m, d) == [t |-> "date", year |-> y, month |-> m, day |-> d]

\* date.toordinal(): days since 0001-01-01, which is day 1
DaysBeforeYear(y) == (y - 1) * 365 + ((y - 1) \div 4) - ((y - 1) \div 100) + ((y - 1) \div 400)

RECURSIVE DaysBeforeMonth(_, _)
DaysBeforeMonth(m, y) == IF m = 1 THEN 0 ELSE DaysBeforeMonth(m - 1, y) + DaysIn(m - 1, y)

toordinal(d) == DaysBeforeYear(d.year) + DaysBeforeMonth(d.month, d.year) + d.day

\* date.weekday(): Monday is 0, Sunday is 6
weekday(d) == (toordinal(d) + 6) % 7

\* d + timedelta(days=1) and d - timedelta(days=1)
next_day(d) ==
    IF d.day < DaysIn(d.month, d.year) THEN Date(d.year, d.month, d.day + 1)
    ELSE IF d.month < 12 THEN Date(d.year, d.month + 1, 1)
    ELSE Date(d.year + 1, 1, 1)

prev_day(d) ==
    IF d.day > 1 THEN Date(d.year, d.month, d.day - 1)
    ELSE IF d.month > 1 THEN Date(d.year, d.month - 1, DaysIn(d.month - 1, d.year))
    ELSE Date(d.year - 1, 12, 31)

\* d - timedelta(days=n), n >= 0
RECURSIVE minus_days(_, _)
minus_days(d, n) ==
    IF n = 0 THEN d
    ELSE CHOOSE r \in { minus_days(before, n - 1) : before \in { prev_day(d) } } : TRUE

\* line 276: current_month_date.replace(day=1)
first_day_of_month(date) == Date(date.year, date.month, 1)

\* a plausible slip: the grid starts on the Sunday on or before the 1st
start_of_calendar_sunday(date) ==
    minus_days(first_day_of_month(date), (weekday(first_day_of_month(date)) + 1) % 7)

\* line 277: first_day_of_month - timedelta(days=first_day_of_month.weekday())
start_of_calendar(date) ==
    minus_days(first_day_of_month(date), weekday(first_day_of_month(date)))

\* lines 286-305, the for loop: the cell of each day (active when its month is
\* the displayed month, line 288) and the step to the day after (line 305)
RECURSIVE week_cells(_, _, _)
week_cells(day, date, n) ==
    IF n = 0 THEN << >>
    ELSE CHOOSE row \in { << [ day |-> day, active |-> (day.month = date.month) ] >>
                             \o week_cells(after, date, n - 1) :
                           after \in { next_day(day) } } : TRUE

\* line 306: the test that leaves the while loop
grid_is_complete(day, date) ==
    day.month # date.month /\ ~DateLE(day, first_day_of_month(date))

\* One run of the script with the given widget values: the load call of the
\* sidebar, the two selectboxes, the base view and the in-place assignment of
\* tab 3.  The date inputs of lines 314-316 take the minimum and maximum date
\* of base_filtered_data; on an empty frame that is NaN, st.date_input rejects
\* it and the run stops there.  The breakdowns of tabs 2 and 3 are locals of
\* the run that no later run reads; SpecAgg renders them.
Script(visit_url, group_url, group, collector) ==
    \E call \in { IF visit_url # << >> /\ group_url # << >>
                  THEN cached_load(cache, visit_url, group_url, remote)        \* line 180
                  ELSE [ cache |-> cache, ran |-> FALSE ] } :
    \E value \in { IF visit_url # << >> /\ group_url # << >>
                   THEN call.cache[<<visit_url, group_url>>]
                   ELSE NoData } :                                             \* line 182
        LET logs == value.visit_logs
            info == value.groups_info
            ok == logs # None /\ info # None                                   \* lines 184, 200
            sel_group == IF ok /\ group \in group_options(info) THEN group ELSE AllTeams
            sel_collector == IF ok /\ collector \in collector_options(logs, info, sel_group)
                             THEN collector ELSE AllCollectors
            base == IF ok THEN base_filtered_data(logs, sel_group, sel_collector) ELSE None
            tab3 == ok /\ base.rows # << >>
        IN  /\ visit_log_url' = visit_url
            /\ group_list_url' = group_url
            /\ cache' = call.cache
            /\ fetched' = IF call.ran THEN reads(visit_url, group_url) ELSE None
            /\ returned' = value
            /\ visit_logs' = logs
            /\ groups_info' = IF tab3 /\ sel_group = AllTeams THEN add_formatted_name(info) ELSE info
            /\ selected_group' = sel_group
            /\ selected_collector_name' = sel_collector
            /\ UNCHANGED <<tabVars, viewVars>>

(***************************************************************************)
(* SpecURL: the resolver applied to every bounded sharing link             *)
(***************************************************************************)
Chunks == { <<"s","p","r","e","a","d","s","h","e","e","t","s">>,
            <<"f","i","l","e">>,
            <<"/","d","/">>, <<"/">>, <<"d">>, <<"x","1">> }

RECURSIVE Flatten(_)
Flatten(ss) == IF ss = << >> THEN << >> ELSE Head(ss) \o Flatten(Tail(ss))

Links == { Flatten(cs) : cs \in UNION { [1..n -> Chunks] : n \in 0..MaxChunks } }

InitURL ==
    /\ pc = "call"
    /\ share_link \in Links
    /\ download_url = None
    /\ remote = << >>
    /\ visit_log_url = << >>
    /\ group_list_url = << >>
    /\ returned = None
    /\ NoSession

Resolve ==
    /\ pc = "call"
    /\ download_url' = get_gdrive_download_url(share_link)
    /\ pc' = "done"
    /\ UNCHANGED <<share_link, remote, visit_log_url, group_list_url, returned>>
    /\ UNCHANGED sessionVars

NextURL == Resolve

SpecURL == InitURL /\ [][NextURL]_vars

(***************************************************************************)
(* SpecLoad: load_data_from_gdrive on bounded rosters and visit logs       *)
(***************************************************************************)
VisitLink == <<"s","p","r","e","a","d","s","h","e","e","t","s","/","d","/","V","1","/","e","d","i","t">>
GroupLink == <<"f","i","l","e","/","d","/","G","1","/","v","i","e","w">>
BadLink == <<"d","r","i","v","e","/","f","o","l","d","e","r","s","/","X">>

s_A_Smith == <<"A","-","S","m","i","t","h">>
s_B_Lee == <<"B","-","L","e","e">>
s_T1 == <<"T","1">>
s_T2 == <<"T","2">>

CollectorCells == { Str(<<"1","0","1","-","A","-","S","m","i","t","h">>),
                    Str(<<" "," ","1","0","2"," ","-"," ","B","-","L","e","e">>),
                    NaN }
TimeCells == { Str(<<"0","1","/","0","6","/","2","0","2","4"," ","0","9",":","0","0",":","0","0">>),
               Str(<<"0","6","/","1","3","/","2","0","2","4"," ","0","9",":","0","0",":","0","0">>),
               NaN }
UnitCells == { Str(<<"V","i","s","i","t">>),
               Str(CancelRepossession),
               Str(<<" ","C","a","n","c","e","l","R","e","p","o","s","s","e","s","s","i","o","n"," ">>),
               Str(<<"c","a","n","c","e","l","r","e","p","o","s","s","e","s","s","i","o","n">>) }
AgingCells == { Str(<<"m","3">>), Str(<<" ","M","6","+"," ">>), Str(<<" "," ">>), NaN }

RowChoices == CollectorCells \X TimeCells \X UnitCells \X AgingCells

\* one data row of the visit sheet, with the pandas index label idx
VisitRow(idx, v) ==
    [ idx |-> idx,
      cells |-> [ c \in required_cols |->
                    IF c = cCollector THEN v[1]
                    ELSE IF c = cCreateTime THEN v[2]
                    ELSE IF c = cNegPosUnit THEN v[3]
                    ELSE IF c = cAging THEN v[4]
                    ELSE IF c = cContactSummary THEN Str(<<"o","k">>)
                    ELSE Str(<<"C","u","s","t","1">>) ] ]

VisitSheet(vs) == [ columns |-> required_cols, rows |-> [ i \in 1..Len(vs) |-> VisitRow(i - 1, vs[i]) ] ]

t_ok == Str(<<"0","1","/","0","6","/","2","0","2","4"," ","0","9",":","0","0",":","0","0">>)

\* a sheet mixing a clean row with one row of each kind the pipeline drops
MixedSheet ==
    VisitSheet(<< << Str(<<"1","0","1","-","A","-","S","m","i","t","h">>), t_ok, Str(<<"V","i","s","i","t">>), Str(<<"m","3">>) >>,
                  << Str(<<"9","9","9","-","X">>), t_ok, Str(<<"V","i","s","i","t">>), Str(<<"m","3">>) >>,
                  << Str(<<"1","0","1","-","A","-","S","m","i","t","h">>), t_ok, Str(CancelRepossession), Str(<<"m","3">>) >>,
                  << Str(<<" "," ","1","0","2"," ","-"," ","B","-","L","e","e">>), NaN, Str(<<"V","i","s","i","t">>), Str(<<"m","3">>) >>,
                  << Str(<<" "," ">>), t_ok, Str(<<"V","i","s","i","t">>), Str(<<"m","3">>) >>,
                  << Str(<<" "," ","1","0","2"," ","-"," ","B","-","L","e","e">>), t_ok, Str(<<"V","i","s","i","t">>), Str(<<" ","M","6","+"," ">>) >> >>)

\* the same sheet with a padded header
PaddedSheet ==
    LET pad(c) == IF c = cAging THEN <<" ">> \o c \o <<" ">> ELSE c
    IN  [ columns |-> { pad(c) : c \in required_cols },
          rows |-> [ i \in 1..Len(MixedSheet.rows) |->
                       [ idx |-> MixedSheet.rows[i].idx,
                         cells |-> [ k \in { pad(c) : c \in required_cols } |->
                                       MixedSheet.rows[i].cells[strip(k)] ] ] ] ]

\* the same sheet without its 'Customer Name' column
ShortSheet ==
    [ columns |-> required_cols \ {cCustomerName},
      rows |-> [ i \in 1..Len(MixedSheet.rows) |->
                   [ idx |-> MixedSheet.rows[i].idx,
                     cells |-> [ c \in required_cols \ {cCustomerName} |->
                                   MixedSheet.rows[i].cells[c] ] ] ] ]

VisitSheets ==
    { VisitSheet(vs) : vs \in UNION { [1..n -> RowChoices] : n \in 0..MaxRows } }
        \cup { MixedSheet, PaddedSheet }

\* a roster sheet: name, team and ID columns under the given header names
RosterSheet(idcol, namecol, groupcol, ids) ==
    LET cols == {idcol, namecol, groupcol}
        names == << Str(s_A_Smith), Str(s_B_Lee) >>
        teams == << Str(s_T1), Str(s_T2) >>
    IN  [ columns |-> cols,
          rows |-> [ i \in 1..2 |->
                       [ idx |-> i - 1,
                         cells |-> [ c \in cols |->
                                       IF c = idcol THEN ids[i]
                                       ELSE IF c = namecol THEN names[i] ELSE teams[i] ] ] ] ]

NumIds == << Num(101), Str(<<" ","1","0","2"," ">>) >>
TextIds == << Str(<<"1","0","1">>), Str(<<"1","0","2">>) >>

DropColumn(df, c) ==
    [ columns |-> df.columns \ {c},
      rows |-> [ i \in 1..Len(df.rows) |->
                   [ idx |-> df.rows[i].idx,
                     cells |-> [ k \in df.columns \ {c} |-> df.rows[i].cells[k] ] ] ] ]

MainRoster == RosterSheet(cID, cAgentName, cGroup, NumIds)

\* a roster with the legacy header only
LegacyRoster == RosterSheet(cID, cCollector, cGroup, TextIds)

\* a roster with both headers: 'Collector' holds the codes, 'Agent Name' the names
BothRoster ==
    LET codes == << Str(<<"1","0","1","-","o","l","d">>), Str(<<"1","0","2","-","o","l","d">>) >>
    IN  [ columns |-> MainRoster.columns \cup { cCollector },
          rows |-> [ i \in 1..Len(MainRoster.rows) |->
                       [ idx |-> MainRoster.rows[i].idx,
                         cells |-> [ c \in MainRoster.columns \cup { cCollector } |->
                                       IF c = cCollector THEN codes[i]
                                       ELSE MainRoster.rows[i].cells[c] ] ] ] ]

GoodRosters ==
    { MainRoster,
      LegacyRoster,
      BothRoster,
      RosterSheet(<<" ">> \o cID, cAgentName \o <<" ">>, cGroup, TextIds) }

BadRosters ==
    { DropColumn(MainRoster, c) : c \in {cID, cAgentName, cGroup} }

VisitURL == get_gdrive_download_url(VisitLink).v
GroupURL == get_gdrive_download_url(GroupLink).v

Hosted(visit, group) == (VisitURL :> visit) @@ (GroupURL :> group)

InitLoad ==
    /\ pc = "call"
    /\ share_link = << >>
    /\ download_url = None
    /\ returned = None
    /\ NoSession
    /\ \/ /\ visit_log_url = VisitLink
          /\ group_list_url = GroupLink
          /\ \E v \in VisitSheets : remote = Hosted(v, MainRoster)
       \/ /\ \E p \in { <<VisitLink, GroupLink>>, <<BadLink, GroupLink>>, <<VisitLink, BadLink>> } :
                 visit_log_url = p[1] /\ group_list_url = p[2]
          /\ \E v \in { MixedSheet, PaddedSheet, ShortSheet, FetchError },
                g \in GoodRosters \cup BadRosters \cup { FetchError } : remote = Hosted(v, g)

\* line 180, the function body run once on the two links
Load ==
    /\ pc = "call"
    /\ returned' = load_data_from_gdrive(visit_log_url, group_list_url, remote)
    /\ pc' = "done"
    /\ UNCHANGED <<share_link, download_url, remote, visit_log_url, group_list_url>>
    /\ UNCHANGED sessionVars

NextLoad == Load

SpecLoad == InitLoad /\ [][NextLoad]_vars

(***************************************************************************)
(* Spec: a browser session; every interaction reruns the script            *)
(***************************************************************************)
VisitLinkAlt == <<"s","p","r","e","a","d","s","h","e","e","t","s","/","d","/","V","1","/","v","i","e","w">>

\* the visit log as first uploaded, and after its owner replaced it
ExampleSheet ==
    VisitSheet(<< << Str(<<"1","0","1","-","A","-","S","m","i","t","h">>), t_ok, Str(<<"V","i","s","i","t">>), Str(<<"m","3">>) >> >>)

HostedVersions == { Hosted(MixedSheet, MainRoster), Hosted(ExampleSheet, MainRoster) }

VisitLinkInputs == { << >>, VisitLink, VisitLinkAlt, BadLink }
GroupLinkInputs == { << >>, GroupLink }
TeamInputs == { AllTeams, s_T1, s_T2 }
CollectorInputs == { AllCollectors, s_A_Smith, s_B_Lee }

Init ==
    /\ pc = "session"
    /\ share_link = << >>
    /\ download_url = None
    /\ remote \in HostedVersions
    /\ visit_log_url = << >>
    /\ group_list_url = << >>
    /\ returned = NoData
    /\ NoSession

\* the user edits the visit-log link (line 166)
EnterVisitLink ==
    /\ \E l \in VisitLinkInputs :
           l # visit_log_url /\ Script(l, group_list_url, selected_group, selected_collector_name)
    /\ UNCHANGED <<pc, share_link, download_url, remote>>

\* the user edits the roster link (line 171)
EnterGroupLink ==
    /\ \E l \in GroupLinkInputs :
           l # group_list_url /\ Script(visit_log_url, l, selected_group, selected_collector_name)
    /\ UNCHANGED <<pc, share_link, download_url, remote>>

\* the user picks a team (line 186); the collector selectbox gets new options
SelectGroup ==
    /\ visit_logs # None
    /\ \E g \in TeamInputs :
           g # selected_group /\ Script(visit_log_url, group_list_url, g, AllCollectors)
    /\ UNCHANGED <<pc, share_link, download_url, remote>>

\* the user picks a collector (line 195)
SelectCollector ==
    /\ visit_logs # None
    /\ \E c \in CollectorInputs :
           /\ c # selected_collector_name
           /\ c \in collector_options(returned.visit_logs, returned.groups_info, selected_group)
           /\ Script(visit_log_url, group_list_url, selected_group, c)
    /\ UNCHANGED <<pc, share_link, download_url, remote>>

\* any other interaction (a tab-local widget, the rerun key): same widget values
Rerun ==
    /\ Script(visit_log_url, group_list_url, selected_group, selected_collector_name)
    /\ UNCHANGED <<pc, share_link, download_url, remote>>

\* explicit invalidation: Streamlit's "Clear cache" empties the store
ClearCache ==
    /\ cache # << >>
    /\ cache' = << >>
    /\ fetched' = None
    /\ UNCHANGED <<pc, share_link, download_url, remote, visit_log_url, group_list_url, returned,
                   visit_logs, groups_info, selected_group, selected_collector_name, tabVars, viewVars>>

\* the owner of the hosted visit log replaces its content
HostedSheetChanges ==
    /\ \E h \in HostedVersions : h # remote /\ remote' = h
    /\ fetched' = None
    /\ UNCHANGED <<pc, share_link, download_url, visit_log_url, group_list_url, returned,
                   cache, visit_logs, groups_info, selected_group, selected_collector_name, tabVars, viewVars>>

Next ==
    \/ EnterVisitLink
    \/ EnterGroupLink
    \/ SelectGroup
    \/ SelectCollector
    \/ Rerun
    \/ ClearCache
    \/ HostedSheetChanges

Spec == Init /\ [][Next]_vars

(***************************************************************************)
(* SpecAgg: the tabs rendered on bounded loaded data                       *)
(***************************************************************************)
t_next == Str(<<"0","2","/","0","6","/","2","0","2","4"," ","1","0",":","3","0",":","0","0">>)

c_101 == Str(<<"1","0","1","-","A","-","S","m","i","t","h">>)
c_102 == Str(<<"1","0","2","-","B","-","L","e","e">>)
c_103 == Str(<<"1","0","3","-","C","-","K","i","m">>)
s_C_Kim == <<"C","-","K","i","m">>
u_Visit == Str(<<"V","i","s","i","t">>)

AggCollectorCells == { c_101, c_102, c_103 }
AggAgingCells == { Str(<<"m","0">>), Str(<<"m","2">>), Str(<<"M","1","0">>), Str(<<"n","a">>) }
AggRowChoices == AggCollectorCells \X {t_ok} \X {u_Visit} \X AggAgingCells

\* a sheet over two days
DatedSheet ==
    VisitSheet(<< << c_101, t_ok, u_Visit, Str(<<"m","2">>) >>,
                  << c_102, t_ok, u_Visit, Str(<<"M","1","0">>) >>,
                  << c_102, t_next, u_Visit, Str(<<"n","a">>) >>,
                  << c_103, t_next, u_Visit, Str(<<"m","2">>) >>,
                  << c_103, t_ok, u_Visit, Str(<<"2","b","3">>) >>,
                  << c_101, t_next, u_Visit, Str(<<"M","1","0">>) >> >>)

AggSheets ==
    { VisitSheet(vs) : vs \in UNION { [1..n -> AggRowChoices] : n \in 0..MaxViewRows } }
        \cup { DatedSheet }

\* three collectors in two teams
RosterAgg ==
    LET ids == << Num(101), Num(102), Num(103) >>
        names == << Str(s_A_Smith), Str(s_B_Lee), Str(s_C_Kim) >>
        teams == << Str(s_T1), Str(s_T2), Str(s_T1) >>
        cols == { cID, cAgentName, cGroup }
    IN  [ columns |-> cols,
          rows |-> [ i \in 1..3 |->
                       [ idx |-> i - 1,
                         cells |-> [ c \in cols |->
                                       IF c = cID THEN ids[i]
                                       ELSE IF c = cAgentName THEN names[i] ELSE teams[i] ] ] ] ]

InitAgg ==
    /\ pc = "loaded"
    /\ share_link = << >>
    /\ download_url = None
    /\ visit_log_url = VisitLink
    /\ group_list_url = GroupLink
    /\ \E v \in AggSheets : remote = Hosted(v, RosterAgg)
    /\ returned = load_data_from_gdrive(visit_log_url, group_list_url, remote)
    /\ cache = (<<visit_log_url, group_list_url>> :> returned)
    /\ fetched = reads(visit_log_url, group_list_url)
    /\ visit_logs = returned.visit_logs
    /\ groups_info = returned.groups_info
    /\ selected_group = AllTeams
    /\ selected_collector_name = AllCollectors
    /\ NoTabs
    /\ NoView

\* the values of a two-date input: any two dates of the data; no date to enter
\* when there is no data, where the run stops before the inputs are read
DateRanges(df) ==
    IF df.rows = << >> THEN { None } ELSE DatesOf(df) \X DatesOf(df)

\* the script from line 184 on, with the widgets set by the user
Render ==
    /\ pc = "loaded"
    /\ pc' = "rendered"
    /\ \E group \in group_options(groups_info) :
       \E collector \in collector_options(visit_logs, groups_info, group) :
       \E a_dates \in DateRanges(visit_logs) :
       \E c_dates \in DateRanges(visit_logs) :
       \E primary \in DOMAIN name_map(groups_info, group) :
       \E comparison \in SUBSET (DOMAIN name_map(groups_info, group) \ { primary }) :
           /\ selected_group' = group
           /\ selected_collector_name' = collector
           /\ Tabs(visit_logs, groups_info, group, collector, a_dates, c_dates, primary, comparison)
    /\ UNCHANGED <<share_link, download_url, remote, visit_log_url, group_list_url, returned,
                   cache, fetched, visit_logs>>
    /\ UNCHANGED viewVars

NextAgg == Render

SpecAgg == InitAgg /\ [][NextAgg]_vars

(***************************************************************************)
(* SpecColor: get_aging_colors on bounded labels                           *)
(***************************************************************************)
LabelChars == { "M", "m", "2", "5", "6", " ", "+" }

FreeLabels == UNION { [1..n -> LabelChars] : n \in 0..MaxLabelLen }

\* labels of the other buckets and of what a sheet may hold besides
FixedLabels ==
    { <<"M","3">>, <<"m","3">>, <<" ","m","4"," ">>, <<"M","4">>, <<"M","7">>, <<"M","3","0">>,
      <<"n","a">>, <<" "," ","x","m","6","+"," ">>, <<"M","-","6">> }

StatusInputs ==
    { Str(l) : l \in FreeLabels \cup FixedLabels } \cup { None, NaN, Num(6), Num(2) }

InitColor ==
    /\ pc = "call"
    /\ share_link = << >>
    /\ download_url = None
    /\ remote = << >>
    /\ visit_log_url = << >>
    /\ group_list_url = << >>
    /\ returned = None
    /\ cache = << >>
    /\ fetched = None
    /\ visit_logs = None
    /\ groups_info = None
    /\ selected_group = AllTeams
    /\ selected_collector_name = AllCollectors
    /\ NoTabs
    /\ aging_status \in StatusInputs
    /\ colors = None
    /\ current_date = None
    /\ current_day = None
    /\ cells = << >>

\* line 114: colors = get_aging_colors(row['Aging'])
Classify ==
    /\ pc = "call"
    /\ colors' = get_aging_colors(aging_status)
    /\ pc' = "done"
    /\ UNCHANGED <<share_link, download_url, remote, visit_log_url, group_list_url, returned,
                   cache, fetched, visit_logs, groups_info, selected_group,
                   selected_collector_name, tabVars, aging_status, current_date, current_day,
                   cells>>

NextColor == Classify

SpecColor == InitColor /\ [][NextColor]_vars

(***************************************************************************)
(* SpecCal: the month grid for every current date of bounded years         *)
(***************************************************************************)
Years == 2021..(2020 + MaxYears)

\* every date of the calendar in those years
CurrentDates ==
    UNION { { Date(y, m, d) : d \in 1..DaysIn(m, y) } : y \in Years, m \in 1..12 }

InitCal ==
    /\ pc = "tab1"
    /\ share_link = << >>
    /\ download_url = None
    /\ remote = << >>
    /\ visit_log_url = << >>
    /\ group_list_url = << >>
    /\ returned = None
    /\ cache = << >>
    /\ fetched = None
    /\ visit_logs = None
    /\ groups_info = None
    /\ selected_group = AllTeams
    /\ selected_collector_name = AllCollectors
    /\ NoTabs
    /\ aging_status = None
    /\ colors = None
    /\ current_date = None
    /\ current_day = None
    /\ cells = << >>

\* lines 211-240: the session's current date is today's date or the date the
\* navigation buttons have moved it to, and the month view is selected
EnterMonthView ==
    /\ pc = "tab1"
    /\ current_date' \in CurrentDates
    /\ pc' = "month"
    /\ UNCHANGED <<share_link, download_url, remote, visit_log_url, group_list_url, returned,
                   cache, fetched, visit_logs, groups_info, selected_group,
                   selected_collector_name, tabVars, aging_status, colors, current_day, cells>>

\* lines 270-284: the month view is entered, the header row is drawn and the
\* loop variable is set to the first day of the grid
StartGrid ==
    /\ pc = "month"
    /\ current_day' = start_of_calendar(current_date)
    /\ pc' = "week"
    /\ UNCHANGED <<share_link, download_url, remote, visit_log_url, group_list_url, returned,
                   cache, fetched, visit_logs, groups_info, selected_group,
                   selected_collector_name, tabVars, aging_status, colors, current_date, cells>>

\* lines 284-307, one pass of the while loop: seven cells, then the exit test
EmitWeek ==
    /\ pc = "week"
    /\ cells' = cells \o week_cells(current_day, current_date, 7)
    /\ \E after \in { cells'[Len(cells')].day } :
           /\ current_day' = next_day(after)
           /\ pc' = IF grid_is_complete(next_day(after), current_date) THEN "done" ELSE "week"
    /\ UNCHANGED <<share_link, download_url, remote, visit_log_url, group_list_url, returned,
                   cache, fetched, visit_logs, groups_info, selected_group,
                   selected_collector_name, tabVars, aging_status, colors, current_date>>

NextCal == EnterMonthView \/ StartGrid \/ EmitWeek

\* the script runs to its end once started: each step of the loop is taken
SpecCal == InitCal /\ [][NextCal]_vars /\ WF_vars(NextCal)

(***************************************************************************)
(* Properties of the load                                                  *)
(***************************************************************************)
Loaded == pc = "done" /\ returned.visit_logs # None

\* the hosted sheets as uploaded, read through their trimmed header names
RawCell(row, c) == row.cells[CHOOSE k \in DOMAIN row.cells : strip(k) = c]
RawHas(sheet, c) == \E k \in sheet.columns : strip(k) = c
RawVisit == remote[VisitURL]
RawRoster == remote[GroupURL]
RawRow(idx) == RawVisit.rows[idx + 1]

\* text before the first occurrence of the character ch (all of it if none)
Before(s, ch) ==
    LET I == { i \in 1..Len(s) : s[i] = ch }
    IN  IF I = {} THEN s ELSE SubSeq(s, 1, SetMin(I) - 1)

RosterIdValues == { Str(strip(astype_str(RawCell(RawRoster.rows[k], cID)))) : k \in 1..Len(RawRoster.rows) }

SurvivingIdx == { returned.visit_logs.rows[i].idx : i \in 1..Len(returned.visit_logs.rows) }

\* C1: every row of the returned activity table carries a 'Collector ID' that
\* is an ID of the roster, and no raw row whose derived id is absent from the
\* roster survives the load.
C1_AntiJoin ==
    Loaded =>
        /\ \A i \in 1..Len(returned.visit_logs.rows) :
               returned.visit_logs.rows[i].cells[cCollectorID] \in RosterIdValues
        /\ \A j \in 1..Len(RawVisit.rows) :
               Str(strip(Before(astype_str(RawCell(RawVisit.rows[j], cCollector)), "-")))
                   \notin RosterIdValues
               => RawVisit.rows[j].idx \notin SurvivingIdx

C1_Witness ==
    /\ Loaded
    /\ Len(returned.visit_logs.rows) >= 2
    /\ \E j \in 1..Len(RawVisit.rows) :
           /\ RawCell(RawVisit.rows[j], cCollector) = Str(<<"9","9","9","-","X">>)
           /\ RawCell(RawVisit.rows[j], cNegPosUnit) = Str(<<"V","i","s","i","t">>)
           /\ RawCell(RawVisit.rows[j], cCreateTime) = t_ok
           /\ RawCell(RawVisit.rows[j], cAging) = Str(<<"m","3">>)

\* C2: no returned row has a null 'Create Time', a null or blank 'Aging' or
\* the unit "CancelRepossession", and a raw row whose timestamp, collector
\* field or aging bucket is null or blank is dropped.
IsBlankCell(cell) == IsNull(cell) \/ (cell.t = "str" /\ strip(cell.v) = << >>)

C2_RequiredFields ==
    Loaded =>
        /\ \A i \in 1..Len(returned.visit_logs.rows) :
               LET r == returned.visit_logs.rows[i].cells
               IN  /\ ~IsNull(r[cCreateTime])
                   /\ ~IsBlankCell(r[cAging])
                   /\ r[cNegPosUnit] # Str(CancelRepossession)
        /\ \A j \in 1..Len(RawVisit.rows) :
               ( \/ IsBlankCell(RawCell(RawVisit.rows[j], cCreateTime))
                 \/ IsBlankCell(RawCell(RawVisit.rows[j], cCollector))
                 \/ IsBlankCell(RawCell(RawVisit.rows[j], cAging)) )
               => RawVisit.rows[j].idx \notin SurvivingIdx

\* C3 as stated: a row whose unit is the sentinel in any casing and with any
\* surrounding whitespace is excluded.
C3_AnyCasing ==
    Loaded =>
        \A j \in 1..Len(RawVisit.rows) :
            lower(strip(astype_str(RawCell(RawVisit.rows[j], cNegPosUnit)))) = lower(CancelRepossession)
            => RawVisit.rows[j].idx \notin SurvivingIdx

\* C3 (amended): a row whose unit is "CancelRepossession" in exactly this
\* casing, with any surrounding whitespace, is excluded from the returned table.
C3_Trimmed ==
    Loaded =>
        \A j \in 1..Len(RawVisit.rows) :
            strip(astype_str(RawCell(RawVisit.rows[j], cNegPosUnit))) = CancelRepossession
            => RawVisit.rows[j].idx \notin SurvivingIdx

C3_Witness ==
    /\ Loaded
    /\ \E j \in 1..Len(RawVisit.rows) :
           /\ RawCell(RawVisit.rows[j], cNegPosUnit).v # CancelRepossession
           /\ strip(RawCell(RawVisit.rows[j], cNegPosUnit).v) = CancelRepossession
           /\ RawCell(RawVisit.rows[j], cCollector) = Str(<<"1","0","1","-","A","-","S","m","i","t","h">>)
           /\ RawCell(RawVisit.rows[j], cCreateTime) = t_ok
           /\ RawCell(RawVisit.rows[j], cAging) = Str(<<"m","3">>)
           /\ RawVisit.rows[j].idx \notin SurvivingIdx

\* C4: a failed load returns the no-data pair (None, None): never a partial
\* table, never a roster without its activity table, never an exception.
LoadMustFail ==
    \/ ~HasSub(visit_log_url, SheetMarker) /\ ~HasSub(visit_log_url, FileMarker)
    \/ ~HasSub(group_list_url, SheetMarker) /\ ~HasSub(group_list_url, FileMarker)
    \/ RawRoster = FetchError
    \/ RawVisit = FetchError
    \/ ~RawHas(RawRoster, cID)
    \/ \E c \in required_cols : ~RawHas(RawVisit, c)

FullColumns == required_cols \cup { cCollectorID, cDate, cCollectorName, cGroup }

C4_AllOrNothing ==
    pc = "done" =>
        /\ ~returned.raised
        /\ (returned.visit_logs = None) <=> (returned.groups_info = None)
        /\ LoadMustFail => returned = NoData
        /\ returned.visit_logs # None => returned.visit_logs.columns = FullColumns

C4_Witness ==
    /\ pc = "done"
    /\ visit_log_url = VisitLink
    /\ group_list_url = GroupLink
    /\ RawRoster = MainRoster
    /\ RawVisit = FetchError
    /\ returned = NoData

\* C10: a surviving row carries the trimmed text before the first '-' of its
\* raw Collector field as agent id, the trimmed uppercase raw Aging, the
\* calendar date of its day/month/year timestamp, and the roster's name and
\* team for that agent id; the roster {101, A-Smith, T1} with the row
\* 101-A-Smith, 01/06/2024 09:00:00, m3 yields 101, M3, 2024-06-01, T1.
DateOfText(txt) ==
    [ t |-> "date",
      year |-> ToInt(SubSeq(txt, 7, 10)),
      month |-> ToInt(SubSeq(txt, 4, 5)),
      day |-> ToInt(SubSeq(txt, 1, 2)) ]

RosterNameColumn == IF RawHas(RawRoster, cAgentName) THEN cAgentName ELSE cCollector

ExampleRow(raw) ==
    /\ RawCell(raw, cCollector) = Str(<<"1","0","1","-","A","-","S","m","i","t","h">>)
    /\ RawCell(raw, cCreateTime) = t_ok
    /\ RawCell(raw, cAging) = Str(<<"m","3">>)

C10_Normalization ==
    Loaded =>
        \A i \in 1..Len(returned.visit_logs.rows) :
            LET r == returned.visit_logs.rows[i].cells
                raw == RawRow(returned.visit_logs.rows[i].idx)
            IN  /\ r[cCollectorID] = Str(strip(Before(astype_str(RawCell(raw, cCollector)), "-")))
                /\ r[cAging] = Str(upper(strip(astype_str(RawCell(raw, cAging)))))
                /\ r[cDate] = DateOfText(RawCell(raw, cCreateTime).v)
                /\ \E k \in 1..Len(RawRoster.rows) :
                       /\ Str(strip(astype_str(RawCell(RawRoster.rows[k], cID)))) = r[cCollectorID]
                       /\ RawCell(RawRoster.rows[k], RosterNameColumn) = r[cCollectorName]
                       /\ RawCell(RawRoster.rows[k], cGroup) = r[cGroup]
                /\ ExampleRow(raw) =>
                       /\ r[cCollectorID] = Str(<<"1","0","1">>)
                       /\ r[cAging] = Str(<<"M","3">>)
                       /\ r[cDate] = [t |-> "date", year |-> 2024, month |-> 6, day |-> 1]
                       /\ r[cGroup] = Str(<<"T","1">>)

C10_Witness ==
    /\ Loaded
    /\ RawRoster = MainRoster
    /\ Len(RawVisit.rows) = 1
    /\ ExampleRow(RawVisit.rows[1])
    /\ RawCell(RawVisit.rows[1], cNegPosUnit) = Str(<<"V","i","s","i","t">>)
    /\ Len(returned.visit_logs.rows) = 1
    /\ returned.visit_logs.rows[1].cells[cDate] = [t |-> "date", year |-> 2024, month |-> 6, day |-> 1]

\* nothing but the name column can make the load fail: both links resolve,
\* both sheets are read, the roster has 'ID' and 'Group', the log has its columns
NamesDecide ==
    /\ pc = "done"
    /\ ~LoadMustFail
    /\ RawHas(RawRoster, cGroup)

\* the roster's row of the given ID, read in the given raw column
RosterValue(id, c) ==
    RawCell(RawRoster.rows[CHOOSE k \in 1..Len(RawRoster.rows) :
                               Str(strip(astype_str(RawCell(RawRoster.rows[k], cID)))) = id], c)

TrimmedHeaders(sheet) == { strip(k) : k \in sheet.columns }

\* C12: a roster with a 'Collector' column and no 'Agent Name' column loads,
\* with 'Collector' renamed to 'Agent Name', and every activity record's
\* 'Collector Name' is the roster's 'Collector' value of the record's ID; a
\* roster that has 'Agent Name' keeps its columns as they are (a 'Collector'
\* column stays beside it) and every record's 'Collector Name' is the roster's
\* 'Agent Name' value of the record's ID.
C12_Alias ==
    NamesDecide =>
        /\ (RawHas(RawRoster, cCollector) /\ ~RawHas(RawRoster, cAgentName)) =>
              /\ returned.visit_logs # None
              /\ returned.groups_info.columns
                     = (TrimmedHeaders(RawRoster) \ { cCollector }) \cup { cAgentName }
              /\ \A k \in 1..Len(RawRoster.rows) :
                     returned.groups_info.rows[k].cells[cAgentName]
                         = RawCell(RawRoster.rows[k], cCollector)
              /\ \A i \in 1..Len(returned.visit_logs.rows) :
                     returned.visit_logs.rows[i].cells[cCollectorName]
                         = RosterValue(returned.visit_logs.rows[i].cells[cCollectorID], cCollector)
        /\ RawHas(RawRoster, cAgentName) =>
              /\ returned.visit_logs # None
              /\ returned.groups_info.columns = TrimmedHeaders(RawRoster)
              /\ \A k \in 1..Len(RawRoster.rows) : \A c \in RawRoster.columns :
                     c # cID =>
                         returned.groups_info.rows[k].cells[strip(c)] = RawRoster.rows[k].cells[c]
              /\ \A i \in 1..Len(returned.visit_logs.rows) :
                     returned.visit_logs.rows[i].cells[cCollectorName]
                         = RosterValue(returned.visit_logs.rows[i].cells[cCollectorID], cAgentName)
        /\ (~RawHas(RawRoster, cCollector) /\ ~RawHas(RawRoster, cAgentName)) =>
              returned = NoData

\* the legacy roster loaded, a record named from its 'Collector' column
C12_Witness ==
    /\ NamesDecide
    /\ RawRoster = LegacyRoster
    /\ returned.visit_logs # None
    /\ \E i \in 1..Len(returned.visit_logs.rows) :
           /\ returned.visit_logs.rows[i].cells[cCollectorID] = Str(<<"1","0","2">>)
           /\ returned.visit_logs.rows[i].cells[cCollectorName] = Str(s_B_Lee)

\* the roster with both headers loaded, a record named from 'Agent Name'
C12_WitnessBoth ==
    /\ NamesDecide
    /\ RawRoster = BothRoster
    /\ returned.visit_logs # None
    /\ cCollector \in returned.groups_info.columns
    /\ \E i \in 1..Len(returned.visit_logs.rows) :
           returned.visit_logs.rows[i].cells[cCollectorName] = Str(s_A_Smith)

(***************************************************************************)
(* Properties of the session                                               *)
(***************************************************************************)
BothResolve(key) ==
    get_gdrive_download_url(key[1]) # None /\ get_gdrive_download_url(key[2]) # None

ResolvedPair(key) == << get_gdrive_download_url(key[1]).v, get_gdrive_download_url(key[2]).v >>

C7_BaseUnchanged ==
    visit_logs # None =>
        /\ visit_logs = returned.visit_logs
        /\ groups_info = returned.groups_info

(***************************************************************************)
(* Properties of the breakdowns                                            *)
(***************************************************************************)
Rendered == pc = "rendered" /\ analysis_dates # None

InRange(r, dates) == DateLE(dates[1], r.cells[cDate]) /\ DateLE(r.cells[cDate], dates[2])

\* the sort key of a label: the number written by its first maximal run of digits
KeyOf(label) ==
    IF \A i \in 1..Len(label) : ~IsDigit(label[i]) THEN 0
    ELSE LET a == CHOOSE i \in 1..Len(label) :
                      IsDigit(label[i]) /\ \A k \in 1..(i - 1) : ~IsDigit(label[k])
             b == CHOOSE j \in a..Len(label) :
                      /\ \A k \in a..j : IsDigit(label[k])
                      /\ (j = Len(label) \/ ~IsDigit(label[j + 1]))
         IN  ToInt(SubSeq(label, a, b))

\* rows of the activity table in the personal view: the sidebar filters and
\* the analysis dates
PersonalView ==
    { i \in 1..Len(visit_logs.rows) :
          /\ selected_group = AllTeams \/ visit_logs.rows[i].cells[cGroup].v = selected_group
          /\ \/ selected_collector_name = AllCollectors
             \/ visit_logs.rows[i].cells[cCollectorName].v = selected_collector_name
          /\ InRange(visit_logs.rows[i], analysis_dates) }

\* the label under which a roster agent is offered in tab 3
OptionOf(k) ==
    LET r == groups_info.rows[k]
    IN  IF selected_group = AllTeams
        THEN Str(<<"[">> \o r.cells[cGroup].v \o <<"]", " ">> \o r.cells[cAgentName].v)
        ELSE r.cells[cAgentName]

\* the roster agents, by ID, behind a set of selected labels
AgentsBehind(labels) ==
    { groups_info.rows[k].cells[cID] :
          k \in { j \in 1..Len(groups_info.rows) :
                    /\ selected_group = AllTeams
                          \/ groups_info.rows[j].cells[cGroup].v = selected_group
                    /\ OptionOf(j) \in labels } }

\* rows of the whole activity table of the given agents within the comparison dates
AgentView(agents) ==
    { i \in 1..Len(visit_logs.rows) :
          /\ visit_logs.rows[i].cells[cCollectorID] \in agents
          /\ InRange(visit_logs.rows[i], comp_dates) }

PrimaryView == AgentView(AgentsBehind({ primary_collector_formatted }))
ComparisonAgents == AgentsBehind(comparison_collectors_formatted)
ComparisonView == AgentView(ComparisonAgents)

LabelsOf(view) == { visit_logs.rows[i].cells[cAging].v : i \in view }
RawCount(view, l) == Cardinality({ i \in view : visit_logs.rows[i].cells[cAging].v = l })

HasNoDigits(label) == \A k \in 1..Len(label) : ~IsDigit(label[k])

\* a breakdown has exactly the buckets of its view, each once, each with its
\* key and its count (divided by n where n > 0), in ascending key order
SortedCounts(out, view, n) ==
    out.t = "table" =>
        /\ Len(out.rows) = Cardinality(LabelsOf(view))
        /\ { out.rows[i].Aging : i \in 1..Len(out.rows) } = LabelsOf(view)
        /\ \A i \in 1..Len(out.rows) :
              /\ out.rows[i].AgingSort = KeyOf(out.rows[i].Aging)
              /\ IF n = 0 THEN out.rows[i].Count = RawCount(view, out.rows[i].Aging)
                 ELSE out.rows[i].Count.num * n
                          = RawCount(view, out.rows[i].Aging) * out.rows[i].Count.den
        /\ \A i, j \in 1..Len(out.rows) :
              i < j => KeyOf(out.rows[i].Aging) <= KeyOf(out.rows[j].Aging)

\* the buckets without digits stand before every bucket with digits
NoDigitsFirst(out) ==
    out.t = "table" =>
        \A i, j \in 1..Len(out.rows) :
            HasNoDigits(out.rows[i].Aging) /\ ~HasNoDigits(out.rows[j].Aging) => i < j

\* the buckets without digits stand before every bucket with a positive key
NoDigitsBeforePositive(out) ==
    out.t = "table" =>
        \A i, j \in 1..Len(out.rows) :
            HasNoDigits(out.rows[i].Aging) /\ KeyOf(out.rows[j].Aging) > 0 => i < j

\* C8: each of the three breakdowns (personal, primary collector, comparison
\* group) holds one entry per distinct aging bucket of its input view with the
\* number of the view's rows in that bucket (for the comparison group, that
\* number divided by the group size), ordered ascending by the number written
\* by the first run of digits in the label; a label without digits has key 0
\* and comes first, before the labels with digits.
C8_SortedCounts ==
    Rendered =>
        /\ SortedCounts(aging_counts, PersonalView, 0)
        /\ SortedCounts(aging_counts_primary, PrimaryView, 0)
        /\ SortedCounts(aging_counts_comp, ComparisonView, Cardinality(ComparisonAgents))
        /\ NoDigitsFirst(aging_counts)
        /\ NoDigitsFirst(aging_counts_primary)
        /\ NoDigitsFirst(aging_counts_comp)

\* what does hold of the three breakdowns: entries, counts and keys as in C8,
\* ascending keys, and the labels without digits before the positive keys; a
\* label whose digits read 0 shares key 0 with them, in either order
SortedUpToTies ==
    Rendered =>
        /\ SortedCounts(aging_counts, PersonalView, 0)
        /\ SortedCounts(aging_counts_primary, PrimaryView, 0)
        /\ SortedCounts(aging_counts_comp, ComparisonView, Cardinality(ComparisonAgents))
        /\ NoDigitsBeforePositive(aging_counts)
        /\ NoDigitsBeforePositive(aging_counts_primary)
        /\ NoDigitsBeforePositive(aging_counts_comp)

\* all three breakdowns are shown; the personal one has four buckets, among
\* them one without digits, one with key 10 and two with the same key 2
SortedWitness ==
    /\ Rendered
    /\ aging_counts.t = "table"
    /\ aging_counts_primary.t = "table"
    /\ aging_counts_comp.t = "table"
    /\ Len(aging_counts.rows) = 4
    /\ aging_counts.rows[1].Aging = <<"N","A">>
    /\ aging_counts.rows[4].Aging = <<"M","1","0">>
    /\ Len(aging_counts_comp.rows) >= 2

\* the bucket 'M0' shown ahead of the bucket 'NA'
ZeroKeyTie ==
    /\ Rendered
    /\ aging_counts.t = "table"
    /\ Len(aging_counts.rows) = 2
    /\ aging_counts.rows[1].Aging = <<"M","0">>
    /\ aging_counts.rows[2].Aging = <<"N","A">>

C9_WitnessEmpty ==
    /\ Rendered
    /\ comparison_collectors_formatted = {}
    /\ aging_counts_comp = Message("empty group")

(***************************************************************************)
(* Properties of the colour classifier                                     *)
(***************************************************************************)
\* the label as the classifier reads it: without the blanks around it, in capitals
Capital(c) ==
    IF \E k \in 1..26 : LowerChars[k] = c
    THEN UpperChars[CHOOSE k \in 1..26 : LowerChars[k] = c]
    ELSE c

IsReadAs(label, text) ==
    \E a \in 0..Len(label) : \E b \in 0..Len(label) :
        /\ a + Len(text) + b = Len(label)
        /\ \A i \in 1..a : label[i] = " "
        /\ \A i \in (Len(label) - b + 1)..Len(label) : label[i] = " "
        /\ \A i \in 1..Len(text) : text[i] = Capital(label[a + i])
        /\ text # << >> => text[1] # " " /\ text[Len(text)] # " "

\* the capitals of the label hold 'M6' somewhere (blanks around do not matter)
HoldsM6(label) ==
    \E i \in 1..(Len(label) - 1) : Capital(label[i]) = "M" /\ label[i + 1] = "6"

TierColors == { color_map[k] : k \in DOMAIN color_map }

\* C11: the colours depend on the label alone: a value that is not a string
\* (null, a number) gets the default tier; a label that holds 'M6' once trimmed
\* and uppercased gets the top tier; a label that reads exactly M2, M3, M4 or M5
\* once trimmed and uppercased gets that bucket's tier; every other label gets
\* the default tier; the four bucket tiers, the top tier and the default tier
\* are six different colour pairs.
C11_Classifier ==
    pc = "done" =>
        /\ aging_status.t # "str" => colors = default_colors
        /\ aging_status.t = "str" =>
              /\ HoldsM6(aging_status.v) => colors = m6_colors
              /\ \A k \in { s_M2, s_M3, s_M4, s_M5 } :
                    IsReadAs(aging_status.v, k) => colors = color_map[k]
              /\ ( ~HoldsM6(aging_status.v)
                   /\ \A k \in { s_M2, s_M3, s_M4, s_M5 } : ~IsReadAs(aging_status.v, k) )
                 => colors = default_colors
        /\ DOMAIN color_map = { s_M2, s_M3, s_M4, s_M5 }
        /\ Cardinality(TierColors \cup { m6_colors, default_colors }) = 6
        /\ Cardinality({ c.border : c \in TierColors \cup { m6_colors, default_colors } }) = 6

\* a suffixed, padded, lower-case variant of M6 classified as the top tier
C11_Witness ==
    /\ pc = "done"
    /\ aging_status = Str(<<" "," ","x","m","6","+"," ">>)
    /\ colors = m6_colors

\* a padded lower-case 'm4' classified as the M4 tier
C11_WitnessExact ==
    /\ pc = "done"
    /\ aging_status = Str(<<" ","m","4"," ">>)
    /\ colors = color_map[s_M4]

\* a number classified as the default tier
C11_WitnessDefault ==
    /\ pc = "done"
    /\ aging_status = Num(6)
    /\ colors = default_colors

(***************************************************************************)
(* Properties of the month grid                                            *)
(***************************************************************************)
LeapYear(y) == y % 4 = 0 /\ (y % 100 # 0 \/ y % 400 = 0)

MonthLengths == << 31, 28, 31, 30, 31, 30, 31, 31, 30, 31, 30, 31 >>
DaysBefore == << 0, 31, 59, 90, 120, 151, 181, 212, 243, 273, 304, 334 >>

MonthLen(m, y) == MonthLengths[m] + (IF m = 2 /\ LeapYear(y) THEN 1 ELSE 0)

IsCalendarDate(d) ==
    /\ d.month \in 1..12
    /\ d.day \in 1..MonthLen(d.month, d.year)

\* days since Wednesday 2020-01-01 (day 0), for dates from 2020 on
DayNumber(d) ==
    (d.year - 2020) * 365 + Cardinality({ y \in 2020..(d.year - 1) : LeapYear(y) })
        + DaysBefore[d.month] + (IF d.month > 2 /\ LeapYear(d.year) THEN 1 ELSE 0)
        + (d.day - 1)

IsMonday(d) == (DayNumber(d) + 2) % 7 = 0

Displayed(d) == d.year = current_date.year /\ d.month = current_date.month

FirstOfMonth == [t |-> "date", year |-> current_date.year, month |-> current_date.month, day |-> 1]
LastOfMonth ==
    [t |-> "date", year |-> current_date.year, month |-> current_date.month,
     day |-> MonthLen(current_date.month, current_date.year)]

\* the finished grid: whole weeks of consecutive days from the Monday on or
\* before the 1st, every day of the displayed month active exactly once, the
\* grid ending with the first week after which the next day is outside the month
GridShape ==
    /\ Len(cells) <= 42
    /\ pc = "done" =>
          /\ Len(cells) >= 7
          /\ Len(cells) % 7 = 0
          /\ \A i \in 1..Len(cells) : IsCalendarDate(cells[i].day)
          /\ IsMonday(cells[1].day)
          /\ DayNumber(FirstOfMonth) - DayNumber(cells[1].day) \in 0..6
          /\ \A i \in 1..(Len(cells) - 1) :
                DayNumber(cells[i + 1].day) = DayNumber(cells[i].day) + 1
          /\ \A i \in 1..Len(cells) : cells[i].active <=> Displayed(cells[i].day)
          /\ \A d \in 1..MonthLen(current_date.month, current_date.year) :
                Cardinality({ i \in 1..Len(cells) :
                                /\ cells[i].active
                                /\ cells[i].day.day = d
                                /\ Displayed(cells[i].day) }) = 1
          /\ DayNumber(cells[Len(cells)].day) >= DayNumber(LastOfMonth)
          /\ \A k \in 1..((Len(cells) \div 7) - 1) : Displayed(cells[7 * k + 1].day)

C13_WitnessFour ==
    /\ pc = "done"
    /\ Len(cells) = 28
    /\ \A i \in 1..28 : cells[i].active

(***************************************************************************)
(* Properties of the resolver                                              *)
(***************************************************************************)
\* the identifier token: the characters after the first '/d/' up to the next '/'
TokenOf(link) ==
    LET i == SetMin({ k \in 1..(Len(link) - 2) : SubSeq(link, k, k + 2) = DMarker })
        stops == { k \in (i + 3)..Len(link) : link[k] = "/" } \cup { Len(link) + 1 }
    IN  SubSeq(link, i + 3, SetMin(stops) - 1)

\* C5: a link with neither marker resolves to None, never to a URL; a link with
\* a marker resolves to that family's download address built from the token
\* between '/d/' and the next '/'.
C5_Resolver ==
    pc = "done" =>
        /\ (~HasSub(share_link, SheetMarker) /\ ~HasSub(share_link, FileMarker))
               => download_url = None
        /\ HasSub(share_link, SheetMarker)
               => download_url = Str(SheetPrefix \o TokenOf(share_link) \o SheetSuffix)
        /\ (HasSub(share_link, FileMarker) /\ ~HasSub(share_link, SheetMarker))
               => download_url = Str(FilePrefix \o TokenOf(share_link))

C5_Witness ==
    /\ pc = "done"
    /\ HasSub(share_link, FileMarker)
    /\ TokenOf(share_link) = <<"x","1">>
    /\ download_url = Str(FilePrefix \o <<"x","1">>)

C5_WitnessUnresolved ==
    /\ pc = "done"
    /\ HasSub(share_link, DMarker)
    /\ download_url = None
====
